---------------------------- MODULE Spec2Model ----------------------------
(***************************************************************************)
(* Model of the node-graph connection core of Olive                        *)
(* (src/app/node/param.cpp, src/app/node/input.h).                         *)
(*                                                                         *)
(* NodeParam::ConnectEdge, NodeParam::DisconnectEdge (both overloads) and  *)
(* NodeParam::DisconnectForNewOutput are modelled statement by statement:  *)
(* every thread has a program counter pc[t] and the locals of the call it  *)
(* is executing, so that the interleavings of editing threads and of the   *)
(* lock-free value-resolution path are states of the model.                *)
(*                                                                         *)
(* Spec     : calls are executed one at a time (no two calls overlap), and *)
(*            values are resolved between them; a client may also          *)
(*            disconnect an edge that was disconnected before.             *)
(* SpecConc : the calls of the threads interleave statement by statement.  *)
(*            The value-resolution path takes no lock and may read the     *)
(*            edge lists in any state: what it can observe is what the     *)
(*            state invariants checked under SpecConc range over.          *)
(* SpecTypes   : one call of one of the three overloads of                 *)
(*               NodeParam::AreDataTypesCompatible, on arguments drawn     *)
(*               from bounded sets.                                        *)
(* SpecDecoder : calls of Decoder::ProbeMedia and Decoder::CreateFromID    *)
(*               (src/app/decoder/decoder.cpp) on one Footage whose        *)
(*               filename a client changes between them.                   *)
(* SpecValue   : calls of NodeInput::get_value on inputs with a timeline   *)
(*               of keyframes, connected or not.                           *)
(* SpecDisconnect : calls of NodeParam::DisconnectEdge(output, input), one *)
(*               at a time, on the graphs racing ConnectEdge calls leave.  *)
(* SpecBytes   : one call of NodeParam::ValueToBytes.                      *)
(* SpecViewer  : the slots of ViewerWidget                                 *)
(*               (src/app/widget/viewer/viewer.cpp) in any order.          *)
(***************************************************************************)
EXTENDS Integers, Sequences, FiniteSets, TLC

VARIABLES
    edges_,     \* NodeParam::edges_ of every parameter: a sequence of edges
    time_,      \* NodeParam::time_ of every input (last requested time)
    lock,       \* Node::Lock()/Unlock(): the thread holding each node's lock
    pc,         \* the statement each thread is at
    op,         \* the call each thread executes: [name, output, input]
    edge,       \* the local `edge` of the call each thread executes
    idx,        \* the loop index of DisconnectEdge(output, input)
    ret,        \* the value the call returned (NoEdge models nullptr)
    diag,       \* the diagnostic (qWarning) the call printed
    emitted,    \* the signals the call emitted, in order
    pre,        \* Spec only: edges_ and time_ as they were when the call in
                \* progress started
    calls,      \* SpecConc only: the number of calls started so far
    args,       \* SpecTypes, SpecBytes: the function called and its arguments
    result,     \* SpecTypes, SpecBytes: what it returned, <<>> before it returns
    footage,    \* SpecDecoder: the Footage: filename_, status_, decoder_, streams_
    probe_pc,   \* SpecDecoder: where the call of Decoder::ProbeMedia is
    probe_i,    \* SpecDecoder: the loop index i of ProbeMedia
    probed,     \* SpecDecoder: the Probe() calls of this ProbeMedia, in order
    probe_ret,  \* SpecDecoder: what ProbeMedia returned, <<>> before it returns
    before,     \* SpecDecoder: the Footage as it was when ProbeMedia was called
    created,    \* SpecDecoder: the last CreateFromID call: its id and result
    keyframing_,\* SpecValue: NodeInput::keyframing_ of every input
    keyframes_, \* SpecValue: NodeInput::keyframes_ of every input, ordered by time
    got,        \* SpecValue: the last get_value call: its input, time and value
    time_base_, \* SpecViewer: ViewerWidget::time_base_, a rational
    playback_timer_, \* SpecViewer: playback_timer_.isActive()
    start_timestamp_, \* SpecViewer: ViewerWidget::start_timestamp_
    ruler_,     \* SpecViewer: the time of the TimeRuler (ruler_->GetTime())
    controls_,  \* SpecViewer: the PlaybackControls: the button shown, the time
    viewed      \* SpecViewer: the last slot called and IsPlaying(), the
                \* timebase and the time before it

\* the state of the node graph and of the calls that edit it
nodeVars == <<edges_, time_, lock, pc, op, edge, idx, ret, diag, emitted, pre, calls>>

\* the state of a call of a compatibility check or of ValueToBytes
typeVars == <<args, result>>

\* the state of a footage and of the calls that probe it
decoderVars == <<footage, probe_pc, probe_i, probed, probe_ret, before, created>>

\* the user-defined values of the inputs and the last value resolved
valueVars == <<keyframing_, keyframes_, got>>

\* the state of the viewer widget and its last slot call
viewerVars == <<time_base_, playback_timer_, start_timestamp_, ruler_, controls_, viewed>>

\* what the calls that edit the node graph, the compatibility checks, the
\* calls of the decoder, the resolution of a value and the slots of the
\* viewer do not touch
notNodeVars == <<typeVars, decoderVars, valueVars, viewerVars>>
notTypeVars == <<nodeVars, decoderVars, valueVars, viewerVars>>
notDecoderVars == <<nodeVars, typeVars, valueVars, viewerVars>>
notValueVars == <<lock, pc, op, edge, idx, ret, diag, emitted, pre, calls,
                  typeVars, decoderVars, viewerVars>>
notViewerVars == <<nodeVars, typeVars, decoderVars, valueVars>>

vars == <<nodeVars, typeVars, decoderVars, valueVars, viewerVars>>

-----------------------------------------------------------------------------
(* Bounds of the model *)

\* the edge objects that can be alive at the same time
MaxEdges == 4

\* request times are 0 .. MaxTime
MaxTime == 1

\* the calls the threads of SpecConc start, in all
MaxCalls == 3

\* the lists of accepted types the compatibility checks are called with hold
\* at most MaxTypes types
MaxTypes == 2

\* a Probe() that accepts a file adds at most MaxStreams streams
MaxStreams == 2

\* the values given to ValueToBytes are the multiples of 127 up to
\* 127 * MaxValue
MaxValue == 4

\* a timeline holds at most MaxKeyframes keyframes
MaxKeyframes == 3

\* keyframes are at the times 1 .. MaxKeyTime - 1, values are requested at
\* the times 0 .. MaxKeyTime
MaxKeyTime == 4

\* the viewer shows the frames up to MaxFrame
MaxFrame == 3

\* the value ClearCachedValue() stores in time_ (also the constructor's)
kTimeSentinel == -1

-----------------------------------------------------------------------------
(* The graph the operations act on *)

DataType ==
    {"kNone", "kInt", "kFloat", "kColor", "kString", "kBoolean", "kFont",
     "kFile", "kTexture", "kMatrix", "kBlock", "kFootage", "kTrack",
     "kRational", "kVec2", "kVec3", "kVec4", "kAny"}

Threads == {"T1", "T2"}
NoThread == "none"

Nodes == {"NA", "NB", "NC"}

\* Node::parent(): the graph a node belongs to
NodeGraph == [NA |-> "G1", NB |-> "G1", NC |-> "G2"]

Outputs == {"OA1", "OA2", "OB1", "OB2", "OC"}
Inputs == {"IA", "IB"}
Params == Outputs \cup Inputs

\* NodeParam::parent(): the node that owns a parameter
ParamNode ==
    [OA1 |-> "NA", OA2 |-> "NA", IA |-> "NA",
     OB1 |-> "NB", OB2 |-> "NB", IB |-> "NB",
     OC |-> "NC"]

\* NodeOutput::data_type()
OutputType ==
    [OA1 |-> "kInt", OA2 |-> "kString", OB1 |-> "kInt", OB2 |-> "kString",
     OC |-> "kFloat"]

\* NodeInput::inputs_: the data types an input accepts
inputs_ == [IA |-> <<"kFloat">>, IB |-> <<"kInt", "kString">>]

\* NodeParam::type()
ParamType(p) == IF p \in Inputs THEN "kInput" ELSE "kOutput"

-----------------------------------------------------------------------------
(* Edges *)

EdgeIds == 1 .. MaxEdges

\* a NodeEdge object: id is the identity of the allocation
Edges == [id : EdgeIds, output : Outputs, input : Inputs]

\* nullptr
NoEdge == [id |-> 0, output |-> "none", input |-> "none"]

NoOp == [name |-> "none", output |-> "none", input |-> "none"]

SeqToSet(s) == {s[k] : k \in 1 .. Len(s)}

\* removeAll that removes every edge with the output and the input of e
RemoveAll_SameEnds(s, e) ==
    SelectSeq(s, LAMBDA x : x.output # e.output \/ x.input # e.input)

\* QVector::removeAll(e)
RemoveAll(s, e) == SelectSeq(s, LAMBDA x : x # e)

\* the number of times e occurs in s
Count(s, e) == Cardinality({k \in 1 .. Len(s) : s[k] = e})


-----------------------------------------------------------------------------
(* Data type compatibility *)

\* AreDataTypesCompatible that also narrows a float to an integer
AreDataTypesCompatible_BothWays(output_type, input_type) ==
    IF input_type = output_type THEN TRUE
    ELSE IF input_type = "kNone" THEN FALSE
    ELSE IF input_type = "kAny" THEN TRUE
    ELSE IF output_type = "kInt" /\ input_type = "kFloat" THEN TRUE
    ELSE IF output_type = "kFloat" /\ input_type = "kInt" THEN TRUE
    ELSE FALSE

\* NodeParam::AreDataTypesCompatible(const DataType&, const DataType&)
AreDataTypesCompatible(output_type, input_type) ==
    IF input_type = output_type THEN TRUE
    ELSE IF input_type = "kNone" THEN FALSE
    ELSE IF input_type = "kAny" THEN TRUE
    ELSE IF output_type = "kInt" /\ input_type = "kFloat" THEN TRUE
    ELSE FALSE

\* the loop of AreDataTypesCompatible(const DataType&, const QList<DataType>&)
\* from index i (0-based) on: it returns at the first compatible type
RECURSIVE ListLoop(_, _, _)
ListLoop(output_type, input_types, i) ==
    IF i < Len(input_types)
        THEN IF AreDataTypesCompatible(output_type, input_types[i + 1])
                THEN TRUE
                ELSE ListLoop(output_type, input_types, i + 1)
        ELSE FALSE

\* the list check that looks at the first accepted type only
AreDataTypesCompatibleList_FirstOnly(output_type, input_types) ==
    /\ input_types # <<>>
    /\ AreDataTypesCompatible(output_type, input_types[1])

\* NodeParam::AreDataTypesCompatible(const DataType&, const QList<DataType>&)
AreDataTypesCompatibleList(output_type, input_types) ==
    ListLoop(output_type, input_types, 0)

\* the two-parameter check that expects the input as its first argument
AreDataTypesCompatibleParams_InputFirst(a, b) ==
    IF a.type = b.type THEN FALSE
    ELSE IF a.type = "kInput"
        THEN AreDataTypesCompatibleList(b.data_type, a.inputs)
        ELSE FALSE

\* NodeParam::AreDataTypesCompatible(NodeParam* a, NodeParam* b); a parameter
\* is given by its type(), and its data_type() (an output) or its inputs()
\* (an input)
AreDataTypesCompatibleParams(a, b) ==
    IF a.type = b.type THEN FALSE
    ELSE LET input == IF a.type = "kInput" THEN a ELSE b
             output == IF a.type = "kInput" THEN b ELSE a
         IN AreDataTypesCompatibleList(output.data_type, input.inputs)

\* NodeInput::can_accept_type(): the input checks its list of accepted types
can_accept_type(input, data_type) ==
    AreDataTypesCompatibleList(data_type, inputs_[input])

-----------------------------------------------------------------------------
(* Helpers of the calls *)

\* NodeParam::IsConnected()
IsConnected(p) == edges_[p] # <<>>

\* the ids of the edge objects something still refers to
UsedIds ==
    UNION {{e.id : e \in SeqToSet(edges_[p])} : p \in Params}
    \cup {edge[t].id : t \in Threads}
    \cup {ret[t].id : t \in Threads}
    \cup UNION {{emitted[t][k].edge.id : k \in 1 .. Len(emitted[t])} : t \in Threads}
    \cup UNION {{e.id : e \in SeqToSet(pre.edges[p])} : p \in Params}

FreeIds == EdgeIds \ UsedIds

\* std::make_shared<NodeEdge>(output, input): a fresh edge object
NewEdge(output, input) ==
    [id |-> CHOOSE n \in FreeIds : \A m \in FreeIds : n <= m,
     output |-> output, input |-> input]

\* ConnectEdge without its data type check
Rejection_NoTypeCheck(output, input) ==
    IF \E k \in 1 .. Len(edges_[input]) : edges_[input][k].output = output
        THEN "duplicate"
    ELSE IF NodeGraph[ParamNode[output]] # NodeGraph[ParamNode[input]]
        THEN "graph"
    ELSE "none"

\* ConnectEdge without its same-graph check
Rejection_NoGraphCheck(output, input) ==
    IF \E k \in 1 .. Len(edges_[input]) : edges_[input][k].output = output
        THEN "duplicate"
    ELSE IF ~can_accept_type(input, OutputType[output])
        THEN "invalid"
    ELSE "none"

\* the checks of ConnectEdge, in the order of the code: the diagnostic of the
\* first check that rejects the connection, "none" when all of them pass
Rejection(output, input) ==
    IF \E k \in 1 .. Len(edges_[input]) : edges_[input][k].output = output
        THEN "duplicate"
    ELSE IF ~can_accept_type(input, OutputType[output])
        THEN "invalid"
    ELSE IF NodeGraph[ParamNode[output]] # NodeGraph[ParamNode[input]]
        THEN "graph"
    ELSE "none"

\* the edges a racing read of a list of p may still find in freed slots:
\* the ones another thread holds while it disconnects them
StaleEdges(t, p) ==
    {edge[u] : u \in {u \in Threads \ {t} :
                        /\ edge[u] # NoEdge
                        /\ p \in {edge[u].input, edge[u].output}}}

Idle(t) == pc[t] = "idle"
Quiescent == \A t \in Threads : Idle(t)
Crashed == \A t \in Threads : pc[t] = "crashed"

Snapshot == [edges |-> edges_, time |-> time_]
NoSnapshot == [edges |-> [p \in Params |-> <<>>], time |-> [i \in Inputs |-> kTimeSentinel]]

-----------------------------------------------------------------------------
(* Initial state: every parameter as its constructor leaves it *)

\* no call is in progress and no value was resolved
InitCalls ==
    /\ time_ = [i \in Inputs |-> kTimeSentinel]
    /\ lock = [n \in Nodes |-> NoThread]
    /\ pc = [t \in Threads |-> "idle"]
    /\ op = [t \in Threads |-> NoOp]
    /\ edge = [t \in Threads |-> NoEdge]
    /\ idx = [t \in Threads |-> 0]
    /\ ret = [t \in Threads |-> NoEdge]
    /\ diag = [t \in Threads |-> "none"]
    /\ emitted = [t \in Threads |-> <<>>]
    /\ pre = NoSnapshot
    /\ calls = 0

InitNodes ==
    /\ edges_ = [p \in Params |-> <<>>]
    /\ InitCalls

\* no compatibility check is being called
NoArgs == [fn |-> "none", a |-> "none", b |-> "none"]

InitTypesIdle ==
    /\ args = NoArgs
    /\ result = <<>>

\* Footage::Status
Status == {"kUnprobed", "kUnindexed", "kReady", "kInvalid"}

\* the filenames a Footage is given; QFileInfo::exists() is true of the
\* ExistingFiles
Filenames == {"", "clip.mov", "gone.mov"}
ExistingFiles == {"clip.mov"}

\* Footage::Footage(): no streams, not probed, no decoder
NewFootage(filename) ==
    [filename |-> filename, status |-> "kUnprobed", decoder |-> "", streams |-> <<>>]

\* nullptr (DecoderPtr)
NoDecoder == "nullptr"

InitDecoder ==
    /\ footage = NewFootage("")
    /\ probe_pc = "idle"
    /\ probe_i = 0
    /\ probed = <<>>
    /\ probe_ret = <<>>
    /\ before = footage
    /\ created = <<>>

\* a keyframe: NodeKeyframe::time() and NodeKeyframe::value()
Keyframe(time, value) == [time |-> time, value |-> value]

\* NodeInput::NodeInput(): keyframing disabled, one entry holding the value
InitValue ==
    /\ keyframing_ = [i \in Inputs |-> FALSE]
    /\ keyframes_ = [i \in Inputs |-> <<Keyframe(0, 0)>>]
    /\ got = <<>>

\* a rational number (common/rational.h)
Rational(num, den) == [num |-> num, den |-> den]

\* ViewerWidget::ViewerWidget: the timebase is the null rational, the timer
\* is not running, the ruler is at frame 0 and the play button is shown
InitViewer ==
    /\ time_base_ = Rational(0, 1)
    /\ playback_timer_ = FALSE
    /\ start_timestamp_ = 0
    /\ ruler_ = 0
    /\ controls_ = [button |-> "play", time |-> 0]
    /\ viewed = [slot |-> "none", playing |-> FALSE, time_base |-> Rational(0, 1), time |-> 0]

Init ==
    /\ InitNodes
    /\ InitTypesIdle
    /\ InitDecoder
    /\ InitViewer
    /\ InitValue

-----------------------------------------------------------------------------
(* Primitives *)

Goto(t, label) == pc' = [pc EXCEPT ![t] = label]

\* a failed Q_ASSERT or a read of freed memory ends the process: every thread
\* stops where it is
Abort == pc' = [t \in Threads |-> "crashed"]

\* Node::Lock(): blocks while the node's lock is held (by any thread)
Lock(t, node) ==
    /\ lock[node] = NoThread
    /\ lock' = [lock EXCEPT ![node] = t]

\* Node::Unlock()
Unlock(t, node) == lock' = [lock EXCEPT ![node] = NoThread]

\* ClearCachedValue() that leaves time_ as it is
ClearCachedValue_KeepsTime(input) == UNCHANGED time_

\* NodeParam::ClearCachedValue()
ClearCachedValue(input) == time_' = [time_ EXCEPT ![input] = kTimeSentinel]

\* emit input->EdgeAdded(edge) / emit input->EdgeRemoved(edge)
Emit(t, signal, e) ==
    emitted' = [emitted EXCEPT ![t] = Append(@, [signal |-> signal, edge |-> e])]

\* the locals of a call as it starts
StartCall(t, name, output, input, e, label) ==
    /\ pc[t] = "idle"
    /\ Goto(t, label)
    /\ op' = [op EXCEPT ![t] = [name |-> name, output |-> output, input |-> input]]
    /\ edge' = [edge EXCEPT ![t] = e]
    /\ idx' = [idx EXCEPT ![t] = 0]
    /\ ret' = [ret EXCEPT ![t] = NoEdge]
    /\ diag' = [diag EXCEPT ![t] = "none"]
    /\ emitted' = [emitted EXCEPT ![t] = <<>>]
    /\ UNCHANGED <<edges_, time_, lock, notNodeVars>>

-----------------------------------------------------------------------------
(* The calls a client makes *)

\* a client calls NodeParam::ConnectEdge(output, input)
CallConnectEdge(t, output, input) ==
    StartCall(t, "ConnectEdge", output, input, NoEdge, "dfno_isEmpty")

\* a client calls NodeParam::DisconnectEdge(edge) with an edge of some list
CallDisconnectEdge(t, e) ==
    /\ \E p \in Params : e \in SeqToSet(edges_[p])
    /\ StartCall(t, "DisconnectEdge", e.output, e.input, e, "d_lock_output")

\* the edge objects a client may still hold after they were disconnected:
\* edges ConnectEdge can have made, now in no list
DisconnectedEdges ==
    IF FreeIds = {} THEN {}
    ELSE {NewEdge(output, input) : <<output, input>> \in
             {pair \in Outputs \X Inputs :
                 /\ can_accept_type(pair[2], OutputType[pair[1]])
                 /\ NodeGraph[ParamNode[pair[1]]] = NodeGraph[ParamNode[pair[2]]]}}

\* a client calls NodeParam::DisconnectEdge(edge) with an edge that was
\* disconnected before
CallDisconnectEdgeAgain(t, e) ==
    /\ e \in DisconnectedEdges
    /\ StartCall(t, "DisconnectEdge", e.output, e.input, e, "d_lock_output")

\* a client calls NodeParam::DisconnectEdge(output, input)
CallDisconnectEdgeOI(t, output, input) ==
    StartCall(t, "DisconnectEdgeOI", output, input, NoEdge, "scan_size")

\* the call returns to the client, its locals are gone
Return(t) ==
    /\ pc[t] = "done"
    /\ Goto(t, "idle")
    /\ op' = [op EXCEPT ![t] = NoOp]
    /\ edge' = [edge EXCEPT ![t] = NoEdge]
    /\ idx' = [idx EXCEPT ![t] = 0]
    /\ ret' = [ret EXCEPT ![t] = NoEdge]
    /\ diag' = [diag EXCEPT ![t] = "none"]
    /\ emitted' = [emitted EXCEPT ![t] = <<>>]
    /\ UNCHANGED <<edges_, time_, lock, notNodeVars>>

-----------------------------------------------------------------------------
(* NodeParam::DisconnectForNewOutput(input), called first by ConnectEdge *)

\* DisconnectForNewOutput that never disconnects
DisconnectForNewOutput_isEmpty_Skip(t) ==
    /\ pc[t] = "dfno_isEmpty"
    /\ Goto(t, "c_check")
    /\ UNCHANGED <<edges_, time_, lock, op, edge, idx, ret, diag, emitted, pre, calls, notNodeVars>>

\* if (!input->edges_.isEmpty())
DisconnectForNewOutput_isEmpty(t) ==
    /\ pc[t] = "dfno_isEmpty"
    /\ IF edges_[op[t].input] # <<>>
          THEN Goto(t, "dfno_first")
          ELSE Goto(t, "c_check")
    /\ UNCHANGED <<edges_, time_, lock, op, edge, idx, ret, diag, emitted, pre, calls, notNodeVars>>

\* NodeEdgePtr edge = input->edges_.first(); DisconnectEdge(edge);
\* the list is read without the node's lock: when another thread emptied it
\* since isEmpty(), first() reads a freed slot (the process aborts, or the
\* read finds the edge that other thread still holds)
DisconnectForNewOutput_first(t) ==
    /\ pc[t] = "dfno_first"
    /\ IF edges_[op[t].input] # <<>>
          THEN /\ edge' = [edge EXCEPT ![t] = Head(edges_[op[t].input])]
               /\ Goto(t, "d_lock_output")
          ELSE \/ /\ Abort
                  /\ UNCHANGED edge
               \/ \E e \in StaleEdges(t, op[t].input) :
                      /\ edge' = [edge EXCEPT ![t] = e]
                      /\ Goto(t, "d_lock_output")
    /\ UNCHANGED <<edges_, time_, lock, op, idx, ret, diag, emitted, pre, calls, notNodeVars>>

-----------------------------------------------------------------------------
(* NodeParam::DisconnectEdge(NodeOutput* output, NodeInput* input) *)

\* for (int i=0;i<output->edges_.size();i++)
DisconnectEdgeOI_size(t) ==
    /\ pc[t] = "scan_size"
    /\ IF idx[t] < Len(edges_[op[t].output])
          THEN Goto(t, "scan_at")
          ELSE Goto(t, "done")
    /\ UNCHANGED <<edges_, time_, lock, op, edge, idx, ret, diag, emitted, pre, calls, notNodeVars>>

\* NodeEdgePtr edge = output->edges_.at(i);
\* if (edge->input() == input) { DisconnectEdge(edge); break; }
\* the list is read without the node's lock: when another thread shortened it
\* since size(), at(i) is out of range and the process aborts
DisconnectEdgeOI_at(t) ==
    /\ pc[t] = "scan_at"
    /\ IF idx[t] < Len(edges_[op[t].output])
          THEN LET e == edges_[op[t].output][idx[t] + 1] IN
               IF e.input = op[t].input
                  THEN /\ edge' = [edge EXCEPT ![t] = e]
                       /\ Goto(t, "d_lock_output")
                       /\ UNCHANGED idx
                  ELSE /\ idx' = [idx EXCEPT ![t] = @ + 1]
                       /\ Goto(t, "scan_size")
                       /\ UNCHANGED edge
          ELSE /\ Abort
               /\ UNCHANGED <<edge, idx>>
    /\ UNCHANGED <<edges_, time_, lock, op, ret, diag, emitted, pre, calls, notNodeVars>>

-----------------------------------------------------------------------------
(* NodeParam::DisconnectEdge(NodeEdgePtr edge), statement by statement *)

\* output->parent()->Lock();
DisconnectEdge_LockOutput(t) ==
    /\ pc[t] = "d_lock_output"
    /\ Lock(t, ParamNode[edge[t].output])
    /\ Goto(t, "d_lock_input")
    /\ UNCHANGED <<edges_, time_, op, edge, idx, ret, diag, emitted, pre, calls, notNodeVars>>

\* input->parent()->Lock();
DisconnectEdge_LockInput(t) ==
    /\ pc[t] = "d_lock_input"
    /\ Lock(t, ParamNode[edge[t].input])
    /\ Goto(t, "d_remove_output")
    /\ UNCHANGED <<edges_, time_, op, edge, idx, ret, diag, emitted, pre, calls, notNodeVars>>

\* DisconnectEdge that leaves the edge in the output's list
DisconnectEdge_RemoveOutput_Skip(t) ==
    /\ pc[t] = "d_remove_output"
    /\ Goto(t, "d_remove_input")
    /\ UNCHANGED <<edges_, time_, lock, op, edge, idx, ret, diag, emitted, pre, calls, notNodeVars>>

\* output->edges_.removeAll(edge);
DisconnectEdge_RemoveOutput(t) ==
    /\ pc[t] = "d_remove_output"
    /\ edges_' = [edges_ EXCEPT ![edge[t].output] = RemoveAll(@, edge[t])]
    /\ Goto(t, "d_remove_input")
    /\ UNCHANGED <<time_, lock, op, edge, idx, ret, diag, emitted, pre, calls, notNodeVars>>

\* DisconnectEdge that leaves the edge in the input's list
DisconnectEdge_RemoveInput_Skip(t) ==
    /\ pc[t] = "d_remove_input"
    /\ Goto(t, "d_clear")
    /\ UNCHANGED <<edges_, time_, lock, op, edge, idx, ret, diag, emitted, pre, calls, notNodeVars>>

\* input->edges_.removeAll(edge);
DisconnectEdge_RemoveInput(t) ==
    /\ pc[t] = "d_remove_input"
    /\ edges_' = [edges_ EXCEPT ![edge[t].input] = RemoveAll(@, edge[t])]
    /\ Goto(t, "d_clear")
    /\ UNCHANGED <<time_, lock, op, edge, idx, ret, diag, emitted, pre, calls, notNodeVars>>

\* input->ClearCachedValue();
DisconnectEdge_Clear(t) ==
    /\ pc[t] = "d_clear"
    /\ ClearCachedValue(edge[t].input)
    /\ Goto(t, "d_unlock_output")
    /\ UNCHANGED <<edges_, lock, op, edge, idx, ret, diag, emitted, pre, calls, notNodeVars>>

\* output->parent()->Unlock();
DisconnectEdge_UnlockOutput(t) ==
    /\ pc[t] = "d_unlock_output"
    /\ Unlock(t, ParamNode[edge[t].output])
    /\ Goto(t, "d_unlock_input")
    /\ UNCHANGED <<edges_, time_, op, edge, idx, ret, diag, emitted, pre, calls, notNodeVars>>

\* input->parent()->Unlock();
DisconnectEdge_UnlockInput(t) ==
    /\ pc[t] = "d_unlock_input"
    /\ Unlock(t, ParamNode[edge[t].input])
    /\ Goto(t, "d_emit")
    /\ UNCHANGED <<edges_, time_, op, edge, idx, ret, diag, emitted, pre, calls, notNodeVars>>

\* DisconnectEdge that emits no signal
DisconnectEdge_Emit_Silent(t) ==
    /\ pc[t] = "d_emit"
    /\ IF op[t].name = "ConnectEdge"
          THEN /\ Goto(t, "c_check")
               /\ edge' = [edge EXCEPT ![t] = NoEdge]
          ELSE /\ Goto(t, "done")
               /\ UNCHANGED edge
    /\ UNCHANGED <<edges_, time_, lock, op, idx, ret, diag, emitted, pre, calls, notNodeVars>>

\* emit input->EdgeRemoved(edge); then back in the caller: ConnectEdge goes
\* on with its checks, a DisconnectEdge call returns
DisconnectEdge_Emit(t) ==
    /\ pc[t] = "d_emit"
    /\ Emit(t, "EdgeRemoved", edge[t])
    /\ IF op[t].name = "ConnectEdge"
          THEN /\ Goto(t, "c_check")
               /\ edge' = [edge EXCEPT ![t] = NoEdge]
          ELSE /\ Goto(t, "done")
               /\ UNCHANGED edge
    /\ UNCHANGED <<edges_, time_, lock, op, idx, ret, diag, pre, calls, notNodeVars>>

-----------------------------------------------------------------------------
(* NodeParam::ConnectEdge(output, input) after DisconnectForNewOutput *)

\* the duplicate, type and graph checks; a rejected call returns nullptr,
\* an accepted one goes on to std::make_shared<NodeEdge>(output, input)
ConnectEdge_Check(t) ==
    /\ pc[t] = "c_check"
    /\ LET why == Rejection(op[t].output, op[t].input) IN
       IF why # "none"
          THEN /\ diag' = [diag EXCEPT ![t] = why]
               /\ ret' = [ret EXCEPT ![t] = NoEdge]
               /\ Goto(t, "done")
               /\ UNCHANGED edge
          ELSE /\ FreeIds # {}
               /\ edge' = [edge EXCEPT ![t] = NewEdge(op[t].output, op[t].input)]
               /\ Goto(t, "c_lock_output")
               /\ UNCHANGED <<diag, ret>>
    /\ UNCHANGED <<edges_, time_, lock, op, idx, emitted, pre, calls, notNodeVars>>

\* output->parent()->Lock();
ConnectEdge_LockOutput(t) ==
    /\ pc[t] = "c_lock_output"
    /\ Lock(t, ParamNode[op[t].output])
    /\ Goto(t, "c_lock_input")
    /\ UNCHANGED <<edges_, time_, op, edge, idx, ret, diag, emitted, pre, calls, notNodeVars>>

\* input->parent()->Lock();
ConnectEdge_LockInput(t) ==
    /\ pc[t] = "c_lock_input"
    /\ Lock(t, ParamNode[op[t].input])
    /\ Goto(t, "c_append_output")
    /\ UNCHANGED <<edges_, time_, op, edge, idx, ret, diag, emitted, pre, calls, notNodeVars>>

\* output->edges_.append(edge);
ConnectEdge_AppendOutput(t) ==
    /\ pc[t] = "c_append_output"
    /\ edges_' = [edges_ EXCEPT ![op[t].output] = Append(@, edge[t])]
    /\ Goto(t, "c_append_input")
    /\ UNCHANGED <<time_, lock, op, edge, idx, ret, diag, emitted, pre, calls, notNodeVars>>

\* input->edges_.append(edge);
ConnectEdge_AppendInput(t) ==
    /\ pc[t] = "c_append_input"
    /\ edges_' = [edges_ EXCEPT ![op[t].input] = Append(@, edge[t])]
    /\ Goto(t, "c_clear")
    /\ UNCHANGED <<time_, lock, op, edge, idx, ret, diag, emitted, pre, calls, notNodeVars>>

\* input->ClearCachedValue();
ConnectEdge_Clear(t) ==
    /\ pc[t] = "c_clear"
    /\ ClearCachedValue(op[t].input)
    /\ Goto(t, "c_unlock_output")
    /\ UNCHANGED <<edges_, lock, op, edge, idx, ret, diag, emitted, pre, calls, notNodeVars>>

\* output->parent()->Unlock();
ConnectEdge_UnlockOutput(t) ==
    /\ pc[t] = "c_unlock_output"
    /\ Unlock(t, ParamNode[op[t].output])
    /\ Goto(t, "c_unlock_input")
    /\ UNCHANGED <<edges_, time_, op, edge, idx, ret, diag, emitted, pre, calls, notNodeVars>>

\* input->parent()->Unlock();
ConnectEdge_UnlockInput(t) ==
    /\ pc[t] = "c_unlock_input"
    /\ Unlock(t, ParamNode[op[t].input])
    /\ Goto(t, "c_emit")
    /\ UNCHANGED <<edges_, time_, op, edge, idx, ret, diag, emitted, pre, calls, notNodeVars>>

\* emit input->EdgeAdded(edge); return edge;
ConnectEdge_Emit(t) ==
    /\ pc[t] = "c_emit"
    /\ Emit(t, "EdgeAdded", edge[t])
    /\ ret' = [ret EXCEPT ![t] = edge[t]]
    /\ Goto(t, "done")
    /\ UNCHANGED <<edges_, time_, lock, op, edge, idx, diag, pre, calls, notNodeVars>>

-----------------------------------------------------------------------------
(* Value resolution *)

\* NodeInput::get_value(time): the input remembers the time it resolved its
\* value for; it takes no node lock
GetValue(input, time) ==
    /\ time_' = [time_ EXCEPT ![input] = time]
    /\ UNCHANGED <<edges_, lock, pc, op, edge, idx, ret, diag, emitted, pre, calls, notNodeVars>>

-----------------------------------------------------------------------------
(* Specifications *)

\* a client starts a call
Call(t) ==
    \/ \E output \in Outputs, input \in Inputs : CallConnectEdge(t, output, input)
    \/ \E p \in Params : \E k \in 1 .. Len(edges_[p]) : CallDisconnectEdge(t, edges_[p][k])
    \/ \E output \in Outputs, input \in Inputs : CallDisconnectEdgeOI(t, output, input)

\* the thread executes the next statement of its call
Step(t) ==
    \/ DisconnectForNewOutput_isEmpty(t)
    \/ DisconnectForNewOutput_first(t)
    \/ DisconnectEdgeOI_size(t)
    \/ DisconnectEdgeOI_at(t)
    \/ DisconnectEdge_LockOutput(t)
    \/ DisconnectEdge_LockInput(t)
    \/ DisconnectEdge_RemoveOutput(t)
    \/ DisconnectEdge_RemoveInput(t)
    \/ DisconnectEdge_Clear(t)
    \/ DisconnectEdge_UnlockOutput(t)
    \/ DisconnectEdge_UnlockInput(t)
    \/ DisconnectEdge_Emit(t)
    \/ ConnectEdge_Check(t)
    \/ ConnectEdge_LockOutput(t)
    \/ ConnectEdge_LockInput(t)
    \/ ConnectEdge_AppendOutput(t)
    \/ ConnectEdge_AppendInput(t)
    \/ ConnectEdge_Clear(t)
    \/ ConnectEdge_UnlockOutput(t)
    \/ ConnectEdge_UnlockInput(t)
    \/ ConnectEdge_Emit(t)

Resolve == \E input \in Inputs, time \in 0 .. MaxTime : GetValue(input, time)

\* calls one at a time: a call starts, and a value is resolved, only while
\* no call is in progress; pre keeps the state the call started in
Next ==
    \/ \E t \in Threads : Quiescent /\ Call(t) /\ pre' = Snapshot /\ UNCHANGED calls
    \/ \E t \in Threads, e \in Edges :
          Quiescent /\ CallDisconnectEdgeAgain(t, e) /\ pre' = Snapshot /\ UNCHANGED calls
    \/ \E t \in Threads : Step(t)
    \/ \E t \in Threads : Return(t) /\ pre' = NoSnapshot /\ UNCHANGED calls
    \/ Quiescent /\ Resolve

Spec == Init /\ [][Next]_vars

\* the calls of the threads interleave statement by statement, MaxCalls calls
\* in all
NextConc ==
    \/ \E t \in Threads :
          Call(t) /\ calls < MaxCalls /\ calls' = calls + 1 /\ UNCHANGED pre
    \/ \E t \in Threads : Step(t)
    \/ \E t \in Threads : Return(t) /\ UNCHANGED <<pre, calls>>

SpecConc == Init /\ [][NextConc]_vars

-----------------------------------------------------------------------------
(* Calls of the compatibility checks *)

\* the sequences over S of at most n elements
SeqsUpTo(S, n) == UNION {[1 .. k -> S] : k \in 0 .. n}

\* the types the parameters given to the two-parameter check are made of
SomeTypes == {"kNone", "kInt", "kFloat", "kString", "kAny"}

\* a NodeOutput, as the checks see it
OutputParams == [type : {"kOutput"}, data_type : DataType]

\* a NodeInput, as the checks see it
InputParams == [type : {"kInput"}, inputs : SeqsUpTo(SomeTypes, MaxTypes)]

\* the calls of the three checks
TypeCalls ==
    [fn : {"types"}, a : DataType, b : DataType]
    \cup [fn : {"list"}, a : DataType, b : SeqsUpTo(DataType, MaxTypes)]
    \cup [fn : {"params"}, a : OutputParams \cup InputParams,
                           b : OutputParams \cup InputParams]

InitTypes ==
    /\ InitNodes
    /\ InitDecoder
    /\ InitViewer
    /\ InitValue
    /\ args \in TypeCalls
    /\ result = <<>>

\* AreDataTypesCompatible(output_type, input_type) returns
CallAreDataTypesCompatible ==
    /\ args.fn = "types"
    /\ result = <<>>
    /\ result' = <<AreDataTypesCompatible(args.a, args.b)>>
    /\ UNCHANGED <<args, notTypeVars>>

\* AreDataTypesCompatible(output_type, input_types) returns
CallAreDataTypesCompatibleList ==
    /\ args.fn = "list"
    /\ result = <<>>
    /\ result' = <<AreDataTypesCompatibleList(args.a, args.b)>>
    /\ UNCHANGED <<args, notTypeVars>>

\* AreDataTypesCompatible(a, b) returns
CallAreDataTypesCompatibleParams ==
    /\ args.fn = "params"
    /\ result = <<>>
    /\ result' = <<AreDataTypesCompatibleParams(args.a, args.b)>>
    /\ UNCHANGED <<args, notTypeVars>>

NextTypes ==
    \/ CallAreDataTypesCompatible
    \/ CallAreDataTypesCompatibleList
    \/ CallAreDataTypesCompatibleParams

SpecTypes == InitTypes /\ [][NextTypes]_vars

-----------------------------------------------------------------------------
(* Decoder::ProbeMedia and Decoder::CreateFromID *)

\* ReceiveListOfAllDecoders() with the generic decoder first
ReceiveListOfAllDecoders_FFmpegFirst == <<"FFmpegDecoder", "OIIODecoder">>

\* ReceiveListOfAllDecoders(): a new decoder of every class, in the order of
\* their priority
ReceiveListOfAllDecoders == <<"OIIODecoder", "FFmpegDecoder">>

\* Decoder::id() of every class
DecoderId == [OIIODecoder |-> "oiio", FFmpegDecoder |-> "ffmpeg"]

\* the identifiers CreateFromID is called with
SomeIds == {"", "oiio", "ffmpeg", "FFmpeg", "vlc"}

\* Footage::Clear(): the state of a new Footage, with the filename kept
Clear(f) == NewFootage(f.filename)

\* Footage::set_status() and Footage::set_decoder()
set_status(f, status) == [f EXCEPT !.status = status]
set_decoder(f, id) == [f EXCEPT !.decoder = id]

\* Decoder::Probe() that accepts the file: it fills the Footage with the
\* streams it found
ProbeAccepts(f, decoder, n) ==
    [f EXCEPT !.streams = [k \in 1 .. n |-> [index |-> k - 1, decoder |-> decoder]]]

\* a client calls Footage::set_filename()
SetFilename(filename) ==
    /\ probe_pc = "idle"
    /\ footage.filename # filename
    /\ footage' = [footage EXCEPT !.filename = filename]
    /\ UNCHANGED <<probe_pc, probe_i, probed, probe_ret, before, created, notDecoderVars>>

\* ProbeMedia that resets the Footage before it checks the filename
CallProbeMedia_ClearsFirst ==
    /\ probe_pc = "idle"
    /\ before' = footage
    /\ probed' = <<>>
    /\ probe_i' = 0
    /\ footage' = Clear(footage)
    /\ IF footage.filename = "" \/ footage.filename \notin ExistingFiles
          THEN /\ probe_ret' = <<FALSE>>
               /\ probe_pc' = "done"
          ELSE /\ probe_ret' = <<>>
               /\ probe_pc' = "probe"
    /\ UNCHANGED <<created, notDecoderVars>>

\* a client calls Decoder::ProbeMedia(f): the checks of the filename, then
\* f->Clear() and the list of decoders
CallProbeMedia ==
    /\ probe_pc = "idle"
    /\ before' = footage
    /\ probed' = <<>>
    /\ probe_i' = 0
    /\ IF footage.filename = "" \/ footage.filename \notin ExistingFiles
          THEN /\ probe_ret' = <<FALSE>>
               /\ probe_pc' = "done"
               /\ UNCHANGED footage
          ELSE /\ footage' = Clear(footage)
               /\ probe_ret' = <<>>
               /\ probe_pc' = "probe"
    /\ UNCHANGED <<created, notDecoderVars>>

\* ProbeMedia that does not attach the decoder that accepted
ProbeMedia_Probe_NoDecoder ==
    /\ probe_pc = "probe"
    /\ probe_i < Len(ReceiveListOfAllDecoders)
    /\ LET decoder == ReceiveListOfAllDecoders[probe_i + 1] IN
       \/ \E n \in 1 .. MaxStreams :
             /\ probed' = Append(probed, [decoder |-> decoder, accepted |-> TRUE])
             /\ footage' = set_status(ProbeAccepts(footage, decoder, n), "kReady")
             /\ probe_ret' = <<TRUE>>
             /\ probe_pc' = "done"
             /\ UNCHANGED probe_i
       \/ /\ probed' = Append(probed, [decoder |-> decoder, accepted |-> FALSE])
          /\ probe_i' = probe_i + 1
          /\ UNCHANGED <<footage, probe_ret, probe_pc>>
    /\ UNCHANGED <<before, created, notDecoderVars>>

\* one round of the loop of ProbeMedia: decoder->Probe(f) accepts the file
\* (the Footage is Ready with this decoder, ProbeMedia returns true) or
\* rejects it and leaves the Footage as it is
ProbeMedia_Probe ==
    /\ probe_pc = "probe"
    /\ probe_i < Len(ReceiveListOfAllDecoders)
    /\ LET decoder == ReceiveListOfAllDecoders[probe_i + 1] IN
       \/ \E n \in 1 .. MaxStreams :
             /\ probed' = Append(probed, [decoder |-> decoder, accepted |-> TRUE])
             /\ footage' = set_decoder(set_status(ProbeAccepts(footage, decoder, n),
                                                  "kReady"),
                                       DecoderId[decoder])
             /\ probe_ret' = <<TRUE>>
             /\ probe_pc' = "done"
             /\ UNCHANGED probe_i
       \/ /\ probed' = Append(probed, [decoder |-> decoder, accepted |-> FALSE])
          /\ probe_i' = probe_i + 1
          /\ UNCHANGED <<footage, probe_ret, probe_pc>>
    /\ UNCHANGED <<before, created, notDecoderVars>>

\* ProbeMedia that leaves the status as it is when no decoder accepted
ProbeMedia_Fail_KeepsStatus ==
    /\ probe_pc = "probe"
    /\ probe_i >= Len(ReceiveListOfAllDecoders)
    /\ footage' = set_decoder(footage, "")
    /\ probe_ret' = <<FALSE>>
    /\ probe_pc' = "done"
    /\ UNCHANGED <<probe_i, probed, before, created, notDecoderVars>>

\* after the loop of ProbeMedia: no decoder accepted the file
ProbeMedia_Fail ==
    /\ probe_pc = "probe"
    /\ probe_i >= Len(ReceiveListOfAllDecoders)
    /\ footage' = set_decoder(set_status(footage, "kInvalid"), "")
    /\ probe_ret' = <<FALSE>>
    /\ probe_pc' = "done"
    /\ UNCHANGED <<probe_i, probed, before, created, notDecoderVars>>

\* ProbeMedia returns to the client
ReturnProbeMedia ==
    /\ probe_pc = "done"
    /\ probe_pc' = "idle"
    /\ probe_ret' = <<>>
    /\ UNCHANGED <<footage, probe_i, probed, before, created, notDecoderVars>>

\* the loop of CreateFromID over the decoders from index i (0-based) on
RECURSIVE CreateLoop(_, _, _)
CreateLoop(id, decoder_list, i) ==
    IF i < Len(decoder_list)
        THEN IF DecoderId[decoder_list[i + 1]] = id
                THEN decoder_list[i + 1]
                ELSE CreateLoop(id, decoder_list, i + 1)
        ELSE NoDecoder

\* CreateFromID that returns the decoder of the highest priority
CreateFromID_First(id) ==
    IF id = "" THEN NoDecoder ELSE ReceiveListOfAllDecoders[1]

\* Decoder::CreateFromID(id)
CreateFromID(id) ==
    IF id = "" THEN NoDecoder
    ELSE CreateLoop(id, ReceiveListOfAllDecoders, 0)

\* a client calls Decoder::CreateFromID(id), with the decoder of the Footage
\* or with another identifier
CallCreateFromID(id) ==
    /\ probe_pc \in {"idle", "done"}
    /\ id \in SomeIds \cup {footage.decoder}
    /\ created' = <<[id |-> id, decoder |-> CreateFromID(id)]>>
    /\ UNCHANGED <<footage, probe_pc, probe_i, probed, probe_ret, before, notDecoderVars>>

NextDecoder ==
    \/ \E filename \in Filenames : SetFilename(filename)
    \/ CallProbeMedia
    \/ ProbeMedia_Probe
    \/ ProbeMedia_Fail
    \/ ReturnProbeMedia
    \/ \E id \in SomeIds : CallCreateFromID(id)

SpecDecoder == Init /\ [][NextDecoder]_vars

-----------------------------------------------------------------------------
(* NodeInput::get_value *)

\* the value the node of an output computes at a time (the computation is
\* not part of the model: the value tells the output and the time)
OutputBase == [OA1 |-> 100, OA2 |-> 200, OB1 |-> 300, OB2 |-> 400, OC |-> 500]
OutputValue(output, time) == OutputBase[output] + time

\* interpolation that extends the slope of the first and last segment
\* beyond the timeline
Interpolate_Extrapolates(keyframes, time) ==
    LET n == Len(keyframes) IN
    IF n = 1 THEN keyframes[1].value
    ELSE LET k == IF time < keyframes[1].time THEN 1
                  ELSE IF time >= keyframes[n].time THEN n - 1
                  ELSE CHOOSE j \in 1 .. n - 1 :
                           keyframes[j].time <= time /\ time < keyframes[j + 1].time
             a == keyframes[k]
             b == keyframes[k + 1]
         IN a.value + ((b.value - a.value) * (time - a.time)) \div (b.time - a.time)

\* the value of a timeline at a time: the value of the first keyframe before
\* it, of the last keyframe after it, and in between the linear interpolation
\* of the two keyframes that bracket the time
Interpolate(keyframes, time) ==
    LET n == Len(keyframes) IN
    IF time <= keyframes[1].time THEN keyframes[1].value
    ELSE IF time >= keyframes[n].time THEN keyframes[n].value
    ELSE LET k == CHOOSE j \in 1 .. n - 1 :
                      keyframes[j].time <= time /\ time < keyframes[j + 1].time
             a == keyframes[k]
             b == keyframes[k + 1]
         IN a.value + ((b.value - a.value) * (time - a.time)) \div (b.time - a.time)

\* get_value that reads the timeline also when keyframing is disabled
get_value_AlwaysInterpolates(input, time) ==
    IF edges_[input] # <<>>
        THEN OutputValue(Head(edges_[input]).output, time)
        ELSE Interpolate(keyframes_[input], time)

\* NodeInput::get_value(time): the value of the connected output at this
\* time; with no output connected the static value (the first entry of
\* keyframes_, its time ignored) or, keyframed, the value of the timeline
get_value(input, time) ==
    IF edges_[input] # <<>>
        THEN OutputValue(Head(edges_[input]).output, time)
    ELSE IF ~keyframing_[input]
        THEN keyframes_[input][1].value
    ELSE Interpolate(keyframes_[input], time)

KeyTimes == 1 .. MaxKeyTime - 1
KeyValues == {0, 6, 12}
RequestTimes == 0 .. MaxKeyTime

\* the timelines of at most MaxKeyframes keyframes: ordered by time, at most
\* one keyframe per time
Timelines ==
    {s \in SeqsUpTo([time : KeyTimes, value : KeyValues], MaxKeyframes) :
        /\ s # <<>>
        /\ \A k \in 1 .. Len(s) - 1 : s[k].time < s[k + 1].time}

\* the input IA connected to the output OB1, as ConnectEdge leaves them
ConnectedEdges ==
    LET e == [id |-> 1, output |-> "OB1", input |-> "IA"] IN
    [p \in Params |-> IF p \in {"OB1", "IA"} THEN <<e>> ELSE <<>>]

\* the input IA with or without a connected output, keyframed or not, with
\* any timeline
InitGetValue ==
    /\ edges_ \in {[p \in Params |-> <<>>], ConnectedEdges}
    /\ keyframing_ \in {[i \in Inputs |-> i = "IA" /\ k] : k \in BOOLEAN}
    /\ keyframes_ \in {[i \in Inputs |-> IF i = "IA" THEN s ELSE <<Keyframe(0, 0)>>] :
                          s \in Timelines}
    /\ got = <<>>
    /\ InitCalls
    /\ InitTypesIdle
    /\ InitDecoder
    /\ InitViewer

\* a client calls input->get_value(time)
CallGetValue(input, time) ==
    /\ time_' = [time_ EXCEPT ![input] = time]
    /\ got' = <<[input |-> input, time |-> time, value |-> get_value(input, time)]>>
    /\ UNCHANGED <<edges_, keyframing_, keyframes_, notValueVars>>

NextValue == \E input \in Inputs, time \in RequestTimes : CallGetValue(input, time)

SpecValue == InitGetValue /\ [][NextValue]_vars

-----------------------------------------------------------------------------
(* NodeParam::DisconnectEdge(output, input) on the graphs that racing
   ConnectEdge calls leave *)

\* the pairs ConnectEdge accepts and can complete: the type is accepted, the
\* nodes are in one graph, and they are two nodes
ConnectablePairs ==
    {pair \in Outputs \X Inputs :
        /\ can_accept_type(pair[2], OutputType[pair[1]])
        /\ NodeGraph[ParamNode[pair[1]]] = NodeGraph[ParamNode[pair[2]]]
        /\ ParamNode[pair[1]] # ParamNode[pair[2]]}

NoPair == <<"none", "none">>

\* which edge objects are connected, and what each connects: an input has at
\* most the two edges that two racing ConnectEdge calls can leave on it,
\* maybe both from one output
RacedGraphs ==
    {g \in [EdgeIds -> ConnectablePairs \cup {NoPair}] :
        \A input \in Inputs : Cardinality({n \in EdgeIds : g[n][2] = input}) <= 2}

\* the edge list of p in graph g, up to the edge object n: every edge is in
\* the list of its output and in the list of its input, in the order the
\* edges were appended
RECURSIVE EdgeList(_, _, _)
EdgeList(g, p, n) ==
    IF n = 0 THEN <<>>
    ELSE IF p \in {g[n][1], g[n][2]}
        THEN Append(EdgeList(g, p, n - 1), [id |-> n, output |-> g[n][1], input |-> g[n][2]])
        ELSE EdgeList(g, p, n - 1)

InitDisconnect ==
    /\ \E g \in RacedGraphs : edges_ = [p \in Params |-> EdgeList(g, p, MaxEdges)]
    /\ InitCalls
    /\ InitTypesIdle
    /\ InitDecoder
    /\ InitViewer
    /\ InitValue

\* DisconnectEdge(output, input) calls, one at a time
NextDisconnect ==
    \/ \E t \in Threads, output \in Outputs, input \in Inputs :
          /\ Quiescent
          /\ CallDisconnectEdgeOI(t, output, input)
          /\ pre' = Snapshot
          /\ UNCHANGED calls
    \/ \E t \in Threads : DisconnectEdgeOI_size(t)
    \/ \E t \in Threads : DisconnectEdgeOI_at(t)
    \/ \E t \in Threads : DisconnectEdge_LockOutput(t)
    \/ \E t \in Threads : DisconnectEdge_LockInput(t)
    \/ \E t \in Threads : DisconnectEdge_RemoveOutput(t)
    \/ \E t \in Threads : DisconnectEdge_RemoveInput(t)
    \/ \E t \in Threads : DisconnectEdge_Clear(t)
    \/ \E t \in Threads : DisconnectEdge_UnlockOutput(t)
    \/ \E t \in Threads : DisconnectEdge_UnlockInput(t)
    \/ \E t \in Threads : DisconnectEdge_Emit(t)
    \/ \E t \in Threads : Return(t) /\ pre' = NoSnapshot /\ UNCHANGED calls

SpecDisconnect == InitDisconnect /\ [][NextDisconnect]_vars

-----------------------------------------------------------------------------
(* ViewerWidget *)

\* the timebases SetTimebase is called with: the null rational, 1/25, 1/30
Timebases == {Rational(0, 1), Rational(1, 25), Rational(1, 30)}

\* rational::isNull()
isNull(r) == r.num = 0

\* the frames of the model; -1 stands for the times before frame 0
Frames == -1 .. MaxFrame

\* the members of the widget and the state of its child widgets
View ==
    [time_base |-> time_base_, timer |-> playback_timer_,
     start |-> start_timestamp_, ruler |-> ruler_, controls |-> controls_]

\* ViewerWidget::IsPlaying()
IsPlaying(v) == v.timer

\* ViewerWidget::SetTimebase(r)
SetTimebase(v, r) == [v EXCEPT !.time_base = r]

\* ViewerWidget::UpdateTimeInternal(i): controls_->SetTime(i), and
\* TimeChanged is emitted
UpdateTimeInternal(v, i) == [v EXCEPT !.controls.time = i]

\* ViewerWidget::SetTime(time)
SetTime(v, time) == UpdateTimeInternal([v EXCEPT !.ruler = time], time)

\* Pause() that leaves the timer running
Pause_KeepsTimer(v) == [v EXCEPT !.controls.button = "play"]

\* ViewerWidget::Pause()
Pause(v) == [v EXCEPT !.timer = FALSE, !.controls.button = "play"]

\* ViewerWidget::Play()
Play(v) ==
    IF isNull(v.time_base) THEN v
    ELSE [v EXCEPT !.start = v.ruler, !.timer = TRUE, !.controls.button = "pause"]

\* ViewerWidget::TogglePlayPause()
TogglePlayPause(v) == IF IsPlaying(v) THEN Pause(v) ELSE Play(v)

\* ViewerWidget::RulerTimeChange(i)
RulerTimeChange(v, i) == UpdateTimeInternal(Pause(v), i)

\* ViewerWidget::GoToStart()
GoToStart(v) == SetTime(Pause(v), 0)

\* PrevFrame() that does not stop at frame 0
PrevFrame_NoClamp(v) ==
    LET paused == Pause(v) IN SetTime(paused, paused.ruler - 1)

\* ViewerWidget::PrevFrame()
PrevFrame(v) ==
    LET paused == Pause(v) IN
    SetTime(paused, IF paused.ruler - 1 > 0 THEN paused.ruler - 1 ELSE 0)

\* ViewerWidget::NextFrame()
NextFrame(v) ==
    LET paused == Pause(v) IN SetTime(paused, paused.ruler + 1)

\* ViewerWidget::GoToEnd()
GoToEnd(v) == Pause(v)

\* ViewerWidget::PlaybackTimerUpdate(), frames_since_start frames after Play()
PlaybackTimerUpdate(v, frames_since_start) ==
    SetTime(v, v.start + frames_since_start)

\* the slot has run and left the widget as v
Slot(name, v) ==
    /\ time_base_' = v.time_base
    /\ playback_timer_' = v.timer
    /\ start_timestamp_' = v.start
    /\ ruler_' = v.ruler
    /\ controls_' = v.controls
    /\ viewed' = [slot |-> name, playing |-> playback_timer_,
                  time_base |-> time_base_, time |-> ruler_]
    /\ UNCHANGED notViewerVars

CallSetTimebase(r) == Slot("SetTimebase", SetTimebase(View, r))
CallTogglePlayPause == Slot("TogglePlayPause", TogglePlayPause(View))
CallPlay == Slot("Play", Play(View))
CallPause == Slot("Pause", Pause(View))
CallGoToStart == Slot("GoToStart", GoToStart(View))
CallPrevFrame == Slot("PrevFrame", PrevFrame(View))
CallGoToEnd == Slot("GoToEnd", GoToEnd(View))

\* the frames of the model end at MaxFrame
CallNextFrame ==
    /\ ruler_ < MaxFrame
    /\ Slot("NextFrame", NextFrame(View))

\* the user moves the ruler to frame i; the ruler emits TimeChanged(i)
CallRulerTimeChange(i) ==
    Slot("RulerTimeChange", RulerTimeChange([View EXCEPT !.ruler = i], i))

\* the timer fires while it runs. With a null timebase time_base_dbl_ is 0,
\* the division yields an infinity or a NaN and qRound of it is undefined:
\* the time set is any time
TimerFires ==
    /\ playback_timer_
    /\ IF isNull(time_base_)
          THEN \E time \in Frames :
                   Slot("PlaybackTimerUpdate", SetTime(View, time))
          ELSE \E frames_since_start \in 0 .. MaxFrame :
                   /\ start_timestamp_ + frames_since_start <= MaxFrame
                   /\ Slot("PlaybackTimerUpdate",
                           PlaybackTimerUpdate(View, frames_since_start))

NextViewer ==
    \/ \E r \in Timebases : CallSetTimebase(r)
    \/ CallTogglePlayPause
    \/ CallPlay
    \/ CallPause
    \/ CallGoToStart
    \/ CallPrevFrame
    \/ CallNextFrame
    \/ CallGoToEnd
    \/ \E i \in 0 .. MaxFrame : CallRulerTimeChange(i)
    \/ TimerFires

SpecViewer == Init /\ [][NextViewer]_vars

-----------------------------------------------------------------------------
(* NodeParam::ValueToBytes *)

\* the template argument T of ValueToBytesInternal<T> for every type that
\* has a persistent value
CppType ==
    [kInt |-> "int", kFloat |-> "float", kColor |-> "QColor",
     kString |-> "QString", kBoolean |-> "bool", kFont |-> "QString",
     kFile |-> "QString", kMatrix |-> "QMatrix4x4", kFootage |-> "float",
     kRational |-> "rational", kVec2 |-> "QVector2D", kVec3 |-> "QVector3D",
     kVec4 |-> "QVector4D"]

\* sizeof(T), in bytes
SizeOf ==
    [int |-> 4, float |-> 4, QColor |-> 16, QString |-> 8, bool |-> 1,
     QMatrix4x4 |-> 68, rational |-> 16, QVector2D |-> 8, QVector3D |-> 12,
     QVector4D |-> 16]

\* the values and the addresses of the model
Values == {127 * v : v \in 0 .. MaxValue}
Addresses == {4096, 8192}

RECURSIVE Pow256(_)
Pow256(k) == IF k = 0 THEN 1 ELSE 256 * Pow256(k - 1)

\* the object representation of T raw_val = v.value<T>(), as a number: a
\* QString object holds the address of its data, not the characters
RawValue(T, value, address) ==
    IF T = "QString" THEN address
    ELSE IF T = "bool" THEN (IF value = 0 THEN 0 ELSE 1)
    ELSE value

\* ValueToBytesInternal<T>(v): sizeof(T) bytes copied from raw_val
ValueToBytesInternal(T, value, address) ==
    [k \in 1 .. SizeOf[T] |->
        IF k <= 4 THEN (RawValue(T, value, address) \div Pow256(k - 1)) % 256 ELSE 0]

\* ValueToBytes that stores the characters of a string
ValueToBytes_StringContent(type, value, address) ==
    IF type \in DOMAIN CppType
        THEN IF CppType[type] = "QString"
                THEN [k \in 1 .. value \div 127 |-> 65]
                ELSE ValueToBytesInternal(CppType[type], value, address)
        ELSE <<>>

\* NodeParam::ValueToBytes(type, value); address is where the data of the
\* QString read from the value happens to be
ValueToBytes(type, value, address) ==
    IF type \in DOMAIN CppType
        THEN ValueToBytesInternal(CppType[type], value, address)
        ELSE <<>>

BytesCalls == [fn : {"bytes"}, a : DataType, b : Values]

InitBytes ==
    /\ InitNodes
    /\ InitDecoder
    /\ InitViewer
    /\ InitValue
    /\ args \in BytesCalls
    /\ result = <<>>

\* ValueToBytes(type, value) returns
CallValueToBytes ==
    /\ args.fn = "bytes"
    /\ result = <<>>
    /\ \E address \in Addresses :
           result' = <<ValueToBytes(args.a, args.b, address)>>
    /\ UNCHANGED <<args, notTypeVars>>

NextBytes == CallValueToBytes

SpecBytes == InitBytes /\ [][NextBytes]_vars

-----------------------------------------------------------------------------
(* Properties *)

\* the call of thread t has returned and nothing has happened since
Returned(t, name) == pc[t] = "done" /\ op[t].name = name

InList(p, e) == e \in SeqToSet(edges_[p])

SameGraph(output, input) ==
    NodeGraph[ParamNode[output]] = NodeGraph[ParamNode[input]]

\* the call of t left edges_ and time_ as they were and emitted no signal
NoEffect(t) ==
    /\ ret[t] = NoEdge
    /\ edges_ = pre.edges
    /\ time_ = pre.time
    /\ emitted[t] = <<>>

\* C1: a ConnectEdge call that is rejected (type not accepted, or nodes of
\* different graphs) returns no edge and leaves every edge list and cached
\* time as it was, and emits no signal.
C1_RejectedConnectChangesNothing ==
    \A t \in Threads :
        (Returned(t, "ConnectEdge") /\ diag[t] \in {"invalid", "graph"})
            => NoEffect(t)

\* C2: ConnectEdge(output, input) when an edge from this output to this input
\* already exists is a no-op: no edge returned, the lists keep the existing
\* edge, the cached time is not reset and no signal is emitted.
C2_DuplicateConnectIsNoOp ==
    \A t \in Threads :
        (/\ Returned(t, "ConnectEdge")
         /\ \E k \in 1 .. Len(pre.edges[op[t].input]) :
                pre.edges[op[t].input][k].output = op[t].output)
            => NoEffect(t)

\* C3: with calls executed one at a time every input has at most one edge.
C3_AtMostOneEdgePerInput ==
    \A input \in Inputs : Len(edges_[input]) <= 1

\* C3 witness: a ConnectEdge on an input that had an edge has returned a new
\* edge, and the input has one edge.
C3_Witness ==
    \E t \in Threads :
        /\ Returned(t, "ConnectEdge")
        /\ pre.edges[op[t].input] # <<>>
        /\ ret[t] # NoEdge
        /\ Len(edges_[op[t].input]) = 1

\* the input of the ConnectEdge call of t had an edge from another output
\* when the call started
HadEdgeFromOtherOutput(t) ==
    /\ Returned(t, "ConnectEdge")
    /\ pre.edges[op[t].input] # <<>>
    /\ Head(pre.edges[op[t].input]).output # op[t].output

PriorEdgeGone(t) ==
    LET prior == Head(pre.edges[op[t].input]) IN
    /\ ~InList(prior.output, prior)
    /\ ~InList(op[t].input, prior)

Acceptable(output, input) ==
    /\ can_accept_type(input, OutputType[output])
    /\ SameGraph(output, input)

C5_EdgesAreTypeCompatible ==
    \A p \in Params : \A k \in 1 .. Len(edges_[p]) :
        AreDataTypesCompatibleList(OutputType[edges_[p][k].output],
                                   inputs_[edges_[p][k].input])

\* C5 witness: both inputs are connected, IA (accepts kFloat) to the kInt
\* output OB1 and IB to the kString output OA2.
C5_Witness ==
    /\ \E k \in 1 .. Len(edges_["IA"]) : edges_["IA"][k].output = "OB1"
    /\ \E k \in 1 .. Len(edges_["IB"]) : edges_["IB"][k].output = "OA2"

\* C6: both endpoints of every edge are on nodes of the same graph; and
\* ConnectEdge(O, I) across graphs with both lists empty returns nullptr and
\* leaves both lists empty.
C6_EdgesStayInOneGraph ==
    /\ \A p \in Params : \A k \in 1 .. Len(edges_[p]) :
           SameGraph(edges_[p][k].output, edges_[p][k].input)
    /\ \A t \in Threads :
           (/\ Returned(t, "ConnectEdge")
            /\ ~SameGraph(op[t].output, op[t].input)
            /\ pre.edges[op[t].output] = <<>>
            /\ pre.edges[op[t].input] = <<>>)
               => /\ ret[t] = NoEdge
                  /\ edges_[op[t].output] = <<>>
                  /\ edges_[op[t].input] = <<>>

\* C6 witness: a ConnectEdge across graphs whose type check passed has
\* returned, and another input holds an edge.
C6_Witness ==
    \E t \in Threads :
        /\ Returned(t, "ConnectEdge")
        /\ diag[t] = "graph"
        /\ pre.edges[op[t].output] = <<>>
        /\ pre.edges[op[t].input] = <<>>
        /\ \E input \in Inputs : edges_[input] # <<>>

-----------------------------------------------------------------------------
(* Properties of the interleaved calls *)

\* the node whose lock thread t is about to acquire, "none" when t is not at
\* a Lock() statement
LockWanted(t) ==
    CASE pc[t] = "c_lock_output" -> ParamNode[op[t].output]
      [] pc[t] = "c_lock_input" -> ParamNode[op[t].input]
      [] pc[t] = "d_lock_output" -> ParamNode[edge[t].output]
      [] pc[t] = "d_lock_input" -> ParamNode[edge[t].input]
      [] OTHER -> "none"

\* t waits for a lock that u holds
WaitsFor(t, u) == LockWanted(t) # "none" /\ lock[LockWanted(t)] = u

\* the output and input a thread connects or disconnects
ActsOnOutput(t) == IF edge[t] # NoEdge THEN edge[t].output ELSE op[t].output
ActsOnInput(t) == IF edge[t] # NoEdge THEN edge[t].input ELSE op[t].input

\* t uses an output of node a with an input of node b, u the reverse
OppositeRoles(t, u) ==
    /\ pc[t] # "idle" /\ pc[u] # "idle"
    /\ ParamNode[ActsOnOutput(t)] # ParamNode[ActsOnInput(t)]
    /\ ParamNode[ActsOnOutput(t)] = ParamNode[ActsOnInput(u)]
    /\ ParamNode[ActsOnInput(t)] = ParamNode[ActsOnOutput(u)]

\* C7: two threads that connect or disconnect on the same pair of nodes in
\* opposite roles never deadlock: they are never each waiting for a node lock
\* the other holds (a state neither call can leave).
C7_OppositeRolesNeverDeadlock ==
    \A t, u \in Threads :
        (t # u /\ OppositeRoles(t, u)) => ~(WaitsFor(t, u) /\ WaitsFor(u, t))

\* t executes DisconnectEdge(edge) between its Lock() and Unlock() calls
Disconnecting(t) ==
    pc[t] \in {"d_remove_output", "d_remove_input", "d_clear", "d_unlock_output"}

\* C8: disconnecting an edge is atomic for every observer: while a thread
\* disconnects an edge, there is no state (each can be read by a thread that
\* takes no lock) with the edge in one endpoint's list and not in the other's.
C8_DisconnectAtomicForObservers ==
    \A t \in Threads :
        Disconnecting(t)
            => (InList(edge[t].output, edge[t]) <=> InList(edge[t].input, edge[t]))

\* C9: while no call is in progress, an edge is in its output's list iff it
\* is in its input's list, and it is in each of them at most once.
C9_QuiescentListsAgree ==
    Quiescent =>
        \A output \in Outputs, input \in Inputs, n \in EdgeIds :
            LET e == [id |-> n, output |-> output, input |-> input] IN
            /\ Count(edges_[output], e) = Count(edges_[input], e)
            /\ Count(edges_[output], e) <= 1
            /\ \A p \in Params \ {output, input} : ~InList(p, e)

\* C9 witness: no call is in progress, an output has edges to both inputs
\* and an input has two edges (two ConnectEdge calls raced on it).
C9_Witness ==
    /\ Quiescent
    /\ Len(edges_["IB"]) = 2
    /\ edges_["IA"] # <<>>

\* threads t1 and t2 have both finished a ConnectEdge call, with different
\* outputs that the same input accepts, and neither has returned yet
RacedOnInput(t1, t2) ==
    /\ t1 # t2
    /\ Returned(t1, "ConnectEdge")
    /\ Returned(t2, "ConnectEdge")
    /\ op[t1].input = op[t2].input
    /\ op[t1].output # op[t2].output
    /\ Acceptable(op[t1].output, op[t1].input)
    /\ Acceptable(op[t2].output, op[t2].input)

\* C24: once two concurrent ConnectEdge calls with different compatible
\* outputs on the same input have both finished, the input has at most one
\* edge.
C24_RacingConnectsLeaveOneEdge ==
    \A t1, t2 \in Threads :
        RacedOnInput(t1, t2) => Len(edges_[op[t1].input]) <= 1

\* C25: no ConnectEdge or DisconnectEdge call ever executes a Lock() on a
\* node whose lock the calling thread holds, also when the output and the
\* input are on the same node.
C25_NoLockAcquiredTwice ==
    \A t \in Threads : ~WaitsFor(t, t)

\* C10: right after a successful ConnectEdge, and after a DisconnectEdge that
\* touched an input, that input's cached time is the sentinel -1, the value
\* of construction, which is no valid request time.
C10_EdgeChangeResetsCachedTime ==
    /\ kTimeSentinel \notin 0 .. MaxTime
    /\ \A t \in Threads :
        /\ (Returned(t, "ConnectEdge") /\ ret[t] # NoEdge)
              => time_[op[t].input] = kTimeSentinel
        /\ (pc[t] = "done" /\ op[t].name \in {"DisconnectEdge", "DisconnectEdgeOI"}
                /\ edge[t] # NoEdge)
              => time_[edge[t].input] = kTimeSentinel
        /\ \A k \in 1 .. Len(emitted[t]) :
              pc[t] = "done" => time_[emitted[t][k].edge.input] = kTimeSentinel

\* C10 witness: a ConnectEdge that replaced an edge of an input whose cached
\* time was a request time has returned a new edge.
C10_Witness ==
    \E t \in Threads :
        /\ Returned(t, "ConnectEdge")
        /\ ret[t] # NoEdge
        /\ pre.time[op[t].input] \in 0 .. MaxTime
        /\ pre.edges[op[t].input] # <<>>

-----------------------------------------------------------------------------
(* Locks and notifications *)

\* t holds the lock of the node of the output and of the node of the input
HoldsBoth(t, output, input) ==
    /\ lock[ParamNode[output]] = t
    /\ lock[ParamNode[input]] = t

HoldsNoLock(t) == \A n \in Nodes : lock[n] # t

\* t is at a statement that appends to an edge list
Appending(t) == pc[t] \in {"c_append_output", "c_append_input"}

\* t is at a statement that removes from an edge list
Removing(t) == pc[t] \in {"d_remove_output", "d_remove_input"}

\* the edge lists are written under both locks
WritesHoldBothLocks ==
    \A t \in Threads :
        /\ Appending(t) => HoldsBoth(t, op[t].output, op[t].input)
        /\ Removing(t) => HoldsBoth(t, edge[t].output, edge[t].input)

\* a call that has returned holds no lock
ReturnedCallsHoldNoLock ==
    \A t \in Threads : pc[t] \in {"done", "idle"} => HoldsNoLock(t)

\* C11: every append to and removal from an edge list is executed by a thread
\* that holds the locks of both the output's node and the input's node, a call
\* that has returned holds no lock, and a ConnectEdge call that is rejected
\* (type not accepted, or nodes of different graphs) never holds a lock.
C11_WritesUnderBothLocks ==
    /\ WritesHoldBothLocks
    /\ ReturnedCallsHoldNoLock
    /\ \A t \in Threads :
           (op[t].name = "ConnectEdge" /\ ~Acceptable(op[t].output, op[t].input))
               => HoldsNoLock(t)

\* the signals of this name the call of t has emitted
Signals(t, signal) ==
    SelectSeq(emitted[t], LAMBDA s : s.signal = signal)

\* what the calls that have returned have emitted
EmittedOnReturn ==
    \A t \in Threads :
        /\ (Returned(t, "ConnectEdge") /\ ret[t] # NoEdge)
              => Signals(t, "EdgeAdded") = <<[signal |-> "EdgeAdded", edge |-> ret[t]]>>
        /\ (Returned(t, "ConnectEdge") /\ ret[t] = NoEdge)
              => Signals(t, "EdgeAdded") = <<>>
        /\ (pc[t] = "done" /\ op[t].name \in {"DisconnectEdge", "DisconnectEdgeOI"}
                /\ edge[t] # NoEdge /\ InList(edge[t].input, edge[t]) = FALSE
                /\ \E k \in 1 .. Len(pre.edges[edge[t].input]) :
                       pre.edges[edge[t].input][k] = edge[t])
              => emitted[t] = <<[signal |-> "EdgeRemoved", edge |-> edge[t]]>>

\* a step that emits a signal is taken by a thread that holds no lock, with
\* the edge lists already updated
EmitsAfterUpdateAndUnlock ==
    \A t \in Threads :
        Len(emitted'[t]) > Len(emitted[t]) =>
            LET s == emitted'[t][Len(emitted'[t])] IN
            /\ HoldsNoLock(t)
            /\ s.signal = "EdgeAdded"
                  => (InList(s.edge.output, s.edge) /\ InList(s.edge.input, s.edge))
            /\ s.signal = "EdgeRemoved"
                  => (~InList(s.edge.output, s.edge) /\ ~InList(s.edge.input, s.edge))

\* C12: a ConnectEdge that returns an edge has emitted exactly one EdgeAdded,
\* for that edge, and a rejected one none; a DisconnectEdge that removed an
\* edge has emitted exactly one EdgeRemoved, for that edge; and every signal
\* is emitted after the edge lists were updated and the locks released.
C12_OneSignalAfterUnlock ==
    []EmittedOnReturn /\ [][EmitsAfterUpdateAndUnlock]_vars

\* C12 witness: a ConnectEdge that replaced an edge has returned, having
\* emitted EdgeRemoved for the prior edge and then EdgeAdded for the new one.
C12_Witness ==
    \E t \in Threads :
        /\ Returned(t, "ConnectEdge")
        /\ ret[t] # NoEdge
        /\ pre.edges[op[t].input] # <<>>
        /\ emitted[t] = <<[signal |-> "EdgeRemoved", edge |-> Head(pre.edges[op[t].input])],
                          [signal |-> "EdgeAdded", edge |-> ret[t]]>>

-----------------------------------------------------------------------------
(* The order of events when ConnectEdge replaces an edge *)

\* the call of t is a ConnectEdge on an input that had an edge when it started
Replacing(t) ==
    /\ op[t].name = "ConnectEdge"
    /\ pre.edges[op[t].input] # <<>>

\* the edge the input of the call of t had when the call started
OldEdge(t) == Head(pre.edges[op[t].input])

EdgeGone(e) == ~InList(e.output, e) /\ ~InList(e.input, e)

\* the call of t has not emitted EdgeRemoved(old) yet: the new edge is in no
\* list, and the old edge is in neither list when the signal is next
BeforeEdgeRemoved(t) ==
    /\ emitted[t] = <<>>
    /\ pc[t] \in {"dfno_isEmpty", "dfno_first", "d_lock_output", "d_lock_input",
                  "d_remove_output", "d_remove_input", "d_clear",
                  "d_unlock_output", "d_unlock_input", "d_emit"}
    /\ SeqToSet(edges_[op[t].input]) \subseteq {OldEdge(t)}
    /\ pc[t] = "d_emit" => EdgeGone(OldEdge(t))

\* the call of t has emitted EdgeRemoved(old) and not EdgeAdded(new) yet: the
\* old edge is in neither list, and the input has no edge until the new one
\* is appended
BetweenSignals(t) ==
    /\ emitted[t] = <<[signal |-> "EdgeRemoved", edge |-> OldEdge(t)]>>
    /\ EdgeGone(OldEdge(t))
    /\ pc[t] \in {"c_check", "c_lock_output", "c_lock_input", "c_append_output",
                  "c_append_input", "c_clear", "c_unlock_output",
                  "c_unlock_input", "c_emit", "done"}
    /\ pc[t] \in {"c_check", "c_lock_output", "c_lock_input", "c_append_output", "done"}
          => ~IsConnected(op[t].input)
    /\ pc[t] = "c_emit"
          => (edges_[op[t].input] = <<edge[t]>> /\ InList(op[t].output, edge[t]))
    /\ pc[t] = "done" => ret[t] = NoEdge

\* the call of t has emitted EdgeRemoved(old) and then EdgeAdded(new)
AfterEdgeAdded(t) ==
    /\ emitted[t] = <<[signal |-> "EdgeRemoved", edge |-> OldEdge(t)],
                      [signal |-> "EdgeAdded", edge |-> ret[t]]>>
    /\ pc[t] = "done"
    /\ ret[t] # NoEdge
    /\ EdgeGone(OldEdge(t))
    /\ edges_[op[t].input] = <<ret[t]>>
    /\ InList(op[t].output, ret[t])

\* C26: a ConnectEdge that replaces the edge of an input removes the old edge
\* from both lists, then emits EdgeRemoved(old), then appends the new edge to
\* both lists, then emits EdgeAdded(new); EdgeAdded(new) never precedes
\* EdgeRemoved(old), and from EdgeRemoved(old) until the new edge is appended
\* the input has no edge.
C26_RemovedThenAdded ==
    \A t \in Threads :
        Replacing(t) => (BeforeEdgeRemoved(t) \/ BetweenSignals(t) \/ AfterEdgeAdded(t))

\* a ConnectEdge from another output than the one the input was connected
\* to is about to take its locks: the old edge is gone, EdgeRemoved
\* was emitted, and the input has no edge.
C26_WitnessBetween ==
    \E t \in Threads :
        /\ Replacing(t)
        /\ OldEdge(t).output # op[t].output
        /\ pc[t] = "c_lock_output"
        /\ BetweenSignals(t)
        /\ edge[t] # NoEdge

\* C26 witness: a ConnectEdge has replaced the edge of an input by one from
\* another output: both signals were emitted, EdgeRemoved(old) first, and the
\* input has the new edge.
C26_Witness ==
    \E t \in Threads :
        /\ Replacing(t)
        /\ OldEdge(t).output # op[t].output
        /\ AfterEdgeAdded(t)

-----------------------------------------------------------------------------
(* What DisconnectEdge(output, input) removes *)

\* the positions of the edges to input in the list output had when the call
\* started
Matching(output, input) ==
    {k \in 1 .. Len(pre.edges[output]) : pre.edges[output][k].input = input}

\* the list s without its k-th element
WithoutAt(s, k) == SubSeq(s, 1, k - 1) \o SubSeq(s, k + 1, Len(s))

-----------------------------------------------------------------------------
(* Disconnecting what is not connected *)

\* when the call of t started, its edge was in no list
EdgeWasAbsent(t) ==
    \A p \in Params : edge[t] \notin SeqToSet(pre.edges[p])

\* when the call of t started, no edge joined its output and its input
NoEdgeJoined(t) ==
    \A k \in 1 .. Len(pre.edges[op[t].output]) :
        pre.edges[op[t].output][k].input # op[t].input

\* C13: DisconnectEdge(edge) for an edge that is in no list, and
\* DisconnectEdge(output, input) when no edge joins them, leave every edge
\* list and every cached time as they were and emit no signal.
C13_DisconnectAbsentIsNoOp ==
    \A t \in Threads :
        /\ (Returned(t, "DisconnectEdge") /\ EdgeWasAbsent(t)) => NoEffect(t)
        /\ (Returned(t, "DisconnectEdgeOI") /\ NoEdgeJoined(t)) => NoEffect(t)

\* the DisconnectEdge(output, input) half of C13
DisconnectOIAbsentIsNoOp ==
    \A t \in Threads :
        (Returned(t, "DisconnectEdgeOI") /\ NoEdgeJoined(t)) => NoEffect(t)

-----------------------------------------------------------------------------
(* Properties of the compatibility checks *)

\* the check called has returned
TypesReturned(fn) == args.fn = fn /\ result # <<>>

\* C14: AreDataTypesCompatible(o, i) is true iff o = i, or i is kAny, or o is
\* kInt and i is kFloat; a kFloat output into a kInt input is incompatible.
C14_CompatibleIffEqualAnyOrWiden ==
    TypesReturned("types") =>
        /\ result[1] <=> \/ args.a = args.b
                         \/ args.b = "kAny"
                         \/ (args.a = "kInt" /\ args.b = "kFloat")
        /\ (args.a = "kFloat" /\ args.b = "kInt") => result[1] = FALSE

\* C14 witness: the check has returned false for the narrowing pair.
C14_Witness ==
    /\ TypesReturned("types")
    /\ args.a = "kFloat" /\ args.b = "kInt"
    /\ result = <<FALSE>>

\* a kNone input is compatible with no output type other than kNone
NoneInputRejectsOtherTypes ==
    (TypesReturned("types") /\ args.b = "kNone" /\ args.a # "kNone")
        => result[1] = FALSE

\* C15: an input type of kNone is never compatible:
\* AreDataTypesCompatible(o, kNone) is false for every output type o.
C15_NoneInputNeverCompatible ==
    (TypesReturned("types") /\ args.b = "kNone") => result[1] = FALSE

\* C16: AreDataTypesCompatible(o, L) is true iff AreDataTypesCompatible(o, t)
\* is true for at least one member t of L; it is false for the empty list.
C16_ListIffSomeMember ==
    TypesReturned("list") =>
        /\ result[1] <=> \E k \in 1 .. Len(args.b) :
                             AreDataTypesCompatible(args.a, args.b[k])
        /\ args.b = <<>> => result[1] = FALSE

\* C16 witness: the check has returned true for a list whose first type is
\* incompatible and whose second type is compatible.
C16_Witness ==
    /\ TypesReturned("list")
    /\ Len(args.b) = 2
    /\ ~AreDataTypesCompatible(args.a, args.b[1])
    /\ AreDataTypesCompatible(args.a, args.b[2])
    /\ result = <<TRUE>>

\* C17: AreDataTypesCompatible(a, b) = AreDataTypesCompatible(b, a); it is
\* false when a and b are both inputs or both outputs, and otherwise it is
\* the compatibility of the output's type with the input's accepted types.
C17_ParamCheckIsSymmetric ==
    TypesReturned("params") =>
        /\ result[1] = AreDataTypesCompatibleParams(args.b, args.a)
        /\ args.a.type = args.b.type => result[1] = FALSE
        /\ (args.a.type = "kOutput" /\ args.b.type = "kInput")
              => result[1] = AreDataTypesCompatibleList(args.a.data_type, args.b.inputs)
        /\ (args.a.type = "kInput" /\ args.b.type = "kOutput")
              => result[1] = AreDataTypesCompatibleList(args.b.data_type, args.a.inputs)

\* C17 witness: the check has returned true with the output as its first
\* argument.
C17_Witness ==
    /\ TypesReturned("params")
    /\ args.a.type = "kOutput" /\ args.b.type = "kInput"
    /\ result = <<TRUE>>

-----------------------------------------------------------------------------
(* Properties of the decoder's calls *)

\* ProbeMedia has returned this value and nothing has happened since
ProbeReturned(value) == probe_pc = "done" /\ probe_ret = <<value>>

\* the last Probe() call of this ProbeMedia accepted the file
LastProbeAccepted == probed # <<>> /\ probed[Len(probed)].accepted

\* every decoder was asked and rejected the file
AllProbesRejected ==
    /\ Len(probed) = Len(ReceiveListOfAllDecoders)
    /\ \A k \in 1 .. Len(probed) : ~probed[k].accepted

\* C18: ProbeMedia on a Footage with an existing file probes OIIO, then
\* FFmpeg, and stops at the first decoder whose Probe() accepts: no decoder is
\* probed after it, the Footage is Ready with the id of that decoder and
\* ProbeMedia returns true.
C18_FirstAcceptingDecoderWins ==
    /\ \A k \in 1 .. Len(probed) :
           /\ k <= 2
           /\ probed[k].decoder = <<"OIIODecoder", "FFmpegDecoder">>[k]
           /\ probed[k].accepted => (k = Len(probed) /\ probe_pc \in {"done", "idle"})
    /\ (probe_pc = "done" /\ LastProbeAccepted)
           => /\ before.filename \in ExistingFiles
              /\ probe_ret = <<TRUE>>
              /\ footage.status = "kReady"
              /\ footage.decoder = DecoderId[probed[Len(probed)].decoder]
    /\ ProbeReturned(TRUE) => LastProbeAccepted
    /\ (probe_pc = "done" /\ before.filename \in ExistingFiles)
           => (LastProbeAccepted \/ AllProbesRejected)

\* C18 witness: ProbeMedia has returned true after OIIO rejected the file and
\* FFmpeg accepted it.
C18_Witness ==
    /\ ProbeReturned(TRUE)
    /\ Len(probed) = 2
    /\ ~probed[1].accepted
    /\ footage.decoder = "ffmpeg"

\* C19: when every decoder rejects the file, ProbeMedia returns false and
\* leaves the Footage Invalid, with no decoder and nothing else than its
\* filename, whatever it was before the call.
C19_AllRejectedLeavesInvalid ==
    (probe_pc = "done" /\ AllProbesRejected)
        => /\ probe_ret = <<FALSE>>
           /\ footage = [filename |-> before.filename, status |-> "kInvalid",
                         decoder |-> "", streams |-> <<>>]

\* C19 witness: ProbeMedia has returned false for a Footage that was Ready
\* with a decoder and streams before the call.
C19_Witness ==
    /\ probe_pc = "done"
    /\ AllProbesRejected
    /\ before.status = "kReady"
    /\ before.decoder # ""
    /\ before.streams # <<>>

\* a decoder with this identifier is registered
Registered(id) ==
    \E k \in 1 .. Len(ReceiveListOfAllDecoders) :
        DecoderId[ReceiveListOfAllDecoders[k]] = id

\* C20: CreateFromID(id) returns a decoder whose id() is id when a decoder
\* with this identifier is registered, and nullptr for the empty identifier
\* and for an identifier of no registered decoder; for a Footage on which
\* ProbeMedia returned true it returns a decoder with the Footage's decoder id.
C20_CreateFromIDFindsDecoder ==
    /\ \A k \in 1 .. Len(created) :
           IF created[k].id # "" /\ Registered(created[k].id)
              THEN /\ created[k].decoder # NoDecoder
                   /\ DecoderId[created[k].decoder] = created[k].id
              ELSE created[k].decoder = NoDecoder
    /\ ProbeReturned(TRUE)
           => /\ CreateFromID(footage.decoder) # NoDecoder
              /\ DecoderId[CreateFromID(footage.decoder)] = footage.decoder

\* C20 witness: ProbeMedia has returned true with the FFmpeg decoder and
\* CreateFromID was called with the Footage's decoder id.
C20_Witness ==
    /\ ProbeReturned(TRUE)
    /\ footage.decoder = "ffmpeg"
    /\ created = <<[id |-> footage.decoder, decoder |-> "FFmpegDecoder"]>>

-----------------------------------------------------------------------------
(* Properties of get_value *)

\* the last get_value call was on an input with no connected output
GotUnconnected == got # <<>> /\ edges_[got[1].input] = <<>>

\* C21: get_value on an input with no connected output and keyframing
\* disabled returns the same static value for every time, and on a connected
\* input the value of the connected output at the requested time.
C21_StaticOrConnectedValue ==
    /\ (GotUnconnected /\ ~keyframing_[got[1].input])
          => /\ got[1].value = keyframes_[got[1].input][1].value
             /\ \A time \in RequestTimes :
                    get_value(got[1].input, time) = got[1].value
    /\ (got # <<>> /\ edges_[got[1].input] # <<>>)
          => got[1].value = OutputValue(Head(edges_[got[1].input]).output, got[1].time)

\* C21 witness: get_value has returned the static value of an unconnected
\* input, keyframing disabled, whose list holds keyframes of other values at
\* the requested time.
C21_Witness ==
    /\ GotUnconnected
    /\ ~keyframing_[got[1].input]
    /\ \E k \in 2 .. Len(keyframes_[got[1].input]) :
           /\ keyframes_[got[1].input][k].time = got[1].time
           /\ keyframes_[got[1].input][k].value # got[1].value

\* C22: get_value on an unconnected keyframed input returns the value of the
\* first keyframe for a time before it, of the last keyframe for a time after
\* it, and of a keyframe at the time of that keyframe.
C22_NoExtrapolation ==
    (GotUnconnected /\ keyframing_[got[1].input]) =>
        LET keyframes == keyframes_[got[1].input]
            n == Len(keyframes)
        IN /\ got[1].time < keyframes[1].time => got[1].value = keyframes[1].value
           /\ got[1].time > keyframes[n].time => got[1].value = keyframes[n].value
           /\ \A k \in 1 .. n :
                  got[1].time = keyframes[k].time => got[1].value = keyframes[k].value

\* C22 witness: get_value was called for a time after the last keyframe of a
\* keyframed timeline whose last two keyframes differ in value.
C22_Witness ==
    /\ GotUnconnected
    /\ keyframing_[got[1].input]
    /\ LET keyframes == keyframes_[got[1].input]
           n == Len(keyframes)
       IN /\ n >= 2
          /\ got[1].time > keyframes[n].time
          /\ keyframes[n].value # keyframes[n - 1].value

\* the Footage of the ProbeMedia call that has just finished passed the
\* checks of its filename
PassedFilenameChecks ==
    /\ probe_pc = "done"
    /\ before.filename # ""
    /\ before.filename \in ExistingFiles

\* C28: when a ProbeMedia call that passed the filename checks finishes,
\* either it returns true, the Footage is Ready and its decoder id is not
\* empty, or it returns false, the Footage is Invalid and its decoder id is
\* empty; the status is neither Unprobed nor Unindexed.
C28_ReturnStatusDecoderAgree ==
    PassedFilenameChecks =>
        \/ /\ probe_ret = <<TRUE>>
           /\ footage.status = "kReady"
           /\ footage.decoder # ""
        \/ /\ probe_ret = <<FALSE>>
           /\ footage.status = "kInvalid"
           /\ footage.decoder = ""

\* C28 witness: ProbeMedia has returned true on a Footage that an earlier
\* ProbeMedia had left Invalid.
C28_Witness ==
    /\ PassedFilenameChecks
    /\ before.status = "kInvalid"
    /\ probe_ret = <<TRUE>>
    /\ footage.status = "kReady"

\* C29: ProbeMedia on a Footage whose filename is empty or names no existing
\* file returns false, probes no decoder and leaves the Footage as it was.
C29_BadFilenameChangesNothing ==
    (probe_pc = "done" /\ ~PassedFilenameChecks)
        => /\ probe_ret = <<FALSE>>
           /\ probed = <<>>
           /\ footage = before

\* C29 witness: ProbeMedia has returned false on a Footage that was Ready and
\* whose filename now names a file that does not exist; it is still Ready.
C29_Witness ==
    /\ ProbeReturned(FALSE)
    /\ before.filename # ""
    /\ before.filename \notin ExistingFiles
    /\ before.status = "kReady"
    /\ footage.status = "kReady"
    /\ footage.streams # <<>>

-----------------------------------------------------------------------------
(* Properties of ValueToBytes *)

\* C23: ValueToBytes returns no byte for the types kNone, kTexture, kBlock,
\* kTrack and kAny whatever the value, and for every other type at least one
\* byte, as many for every value.
C23_BytesLengthDependsOnTypeOnly ==
    TypesReturned("bytes") =>
        IF args.a \in {"kNone", "kTexture", "kBlock", "kTrack", "kAny"}
            THEN result[1] = <<>>
            ELSE /\ Len(result[1]) > 0
                 /\ \A value \in Values, address \in Addresses :
                        Len(ValueToBytes(args.a, value, address)) = Len(result[1])

\* C23 witness: ValueToBytes has returned for a string value whose bytes
\* depend on where the string is stored.
C23_Witness ==
    /\ TypesReturned("bytes")
    /\ args.a = "kString"
    /\ args.b > 0
    /\ result[1] # ValueToBytes(args.a, args.b, 4096)

-----------------------------------------------------------------------------
(* Properties of the viewer *)

\* C30: right after GoToStart, PrevFrame, NextFrame, GoToEnd and a time
\* change of the ruler, IsPlaying() is false, whatever it was before; Play
\* with a null timebase starts nothing (IsPlaying() is as before: a stopped
\* viewer stays stopped); TogglePlayPause with a valid timebase flips
\* IsPlaying().
C30_SlotsStopPlayback ==
    /\ viewed.slot \in {"GoToStart", "PrevFrame", "NextFrame", "GoToEnd", "RulerTimeChange"}
          => ~IsPlaying(View)
    /\ (viewed.slot = "Play" /\ isNull(viewed.time_base))
          => (IsPlaying(View) = viewed.playing)
    /\ (viewed.slot = "Play" /\ isNull(viewed.time_base) /\ ~viewed.playing)
          => ~IsPlaying(View)
    /\ (viewed.slot = "TogglePlayPause" /\ ~isNull(viewed.time_base))
          => (IsPlaying(View) = ~viewed.playing)

\* C30 witness: NextFrame was called while the viewer was playing, and it
\* plays no more.
C30_Witness ==
    /\ viewed.slot = "NextFrame"
    /\ viewed.playing
    /\ ~IsPlaying(View)
    /\ ruler_ = viewed.time + 1

\* Play was called with a null timebase on a stopped viewer
C30_WitnessPlayNull ==
    /\ viewed.slot = "Play"
    /\ isNull(viewed.time_base)
    /\ ~viewed.playing
    /\ ruler_ > 0

\* TogglePlayPause has started the playback
C30_WitnessToggle ==
    /\ viewed.slot = "TogglePlayPause"
    /\ ~viewed.playing
    /\ IsPlaying(View)

\* the timebase became null while the viewer was playing, and Play was called
PlayingWithNullTimebase ==
    /\ viewed.slot = "Play"
    /\ isNull(viewed.time_base)
    /\ IsPlaying(View)

\* C31: PrevFrame sets the time to max(0, t - 1), NextFrame to t + 1,
\* GoToStart to 0, and GoToEnd leaves it as it is, t being the time before
\* the slot; so from a time that is not negative none of them, and no
\* sequence of them, makes the time negative.
C31_TimeNeverNegative ==
    /\ viewed.slot = "PrevFrame"
          => ruler_ = (IF viewed.time - 1 > 0 THEN viewed.time - 1 ELSE 0)
    /\ viewed.slot = "NextFrame" => ruler_ = viewed.time + 1
    /\ viewed.slot = "GoToStart" => ruler_ = 0
    /\ viewed.slot = "GoToEnd" => ruler_ = viewed.time
    /\ (viewed.slot \in {"GoToStart", "PrevFrame", "NextFrame", "GoToEnd"}
            /\ viewed.time >= 0)
          => ruler_ >= 0

\* C31 witness: PrevFrame was called at frame 0, and the time is still 0.
C31_Witness ==
    /\ viewed.slot = "PrevFrame"
    /\ viewed.time = 0
    /\ ruler_ = 0
    /\ controls_.time = 0

=============================================================================
